---- MODULE Spec2Model ----
(***************************************************************************)
(* A model of onekiwi/model/bga.py: the BGA fanout object.                 *)
(*                                                                         *)
(* The host board (pcbnew) is modelled by three pieces of state: the       *)
(* footprint (its position, its orientation in degrees and its pads, each  *)
(* pad held by its position relative to the footprint at orientation 0 and *)
(* its net code), and the set of items on the board.  A pad's position on  *)
(* the board is a function of the footprint's orientation.                 *)
(*                                                                         *)
(* Points are pairs <<x, y>> in board units.  The end points the fanout    *)
(* computes are pos +/- pitch / 2 with Python's true division, so the      *)
(* points handed to add_track and add_via are held in HALF units (twice    *)
(* the value), which keeps the halves exact.                               *)
(***************************************************************************)
EXTENDS Integers, Sequences, FiniteSets, TLC

\* ------------------------------------------------------------------ bounds
\* pads of a footprint in the lifecycle specification
MaxPads == 3
\* fanout() calls in one run
MaxFanouts == 2
\* largest coordinate of a grid cell in the grid specification
MaxCoord == 3
\* pads of a grid footprint in the grid specification
MaxGridPads == 6
\* largest spacing of the footprints of the geometry specification
MaxSpacing == 2

\* ------------------------------------------------------------- host: angles
AxisAligned == {0, 90, 180, -90}

Diagonal45 == {45, 135, -135, -45}

\* the orientations other than multiples of 45 degrees that the model draws
OtherAngles == {20, -110}

Rotations == AxisAligned \cup Diagonal45 \cup OtherAngles

Alignments == {"Quadrant", "Diagonal", "X-pattern"}

\* the direction strings passed with each alignment; "Counterclock" is the
\* literal the X-pattern methods compare against
DirectionsOf(a) ==
    CASE a = "Diagonal" -> {"TopLeft", "TopRight", "BottomLeft", "BottomRight"}
      [] a = "X-pattern" -> {"Clockwise", "Counterclockwise", "Counterclock"}
      [] OTHER -> {"TopLeft"}

\* the host keeps an orientation in (-180, 180]
Normalize180(d) ==
    IF d > 180 THEN d - 360 ELSE IF d <= -180 THEN d + 360 ELSE d

\* <<cos, sin>> of an angle in degrees, in thousandths
Trig(d) ==
    CASE d = 0 -> <<1000, 0>>
      [] d = 90 -> <<0, 1000>>
      [] d = 180 -> <<-1000, 0>>
      [] d = -90 -> <<0, -1000>>
      [] d = 45 -> <<707, 707>>
      [] d = 135 -> <<-707, 707>>
      [] d = -45 -> <<707, -707>>
      [] d = -135 -> <<-707, -707>>
      [] d = 20 -> <<940, 342>>
      [] d = 65 -> <<423, 906>>
      [] d = -110 -> <<-342, -940>>
      [] d = -65 -> <<423, -906>>

\* thousandths rounded to the nearest unit, halves away from zero
Round1000(n) ==
    IF n >= 0 THEN (n + 500) \div 1000 ELSE -((500 - n) \div 1000)

\* the host's rotation of a footprint-relative point by an orientation
RotatePoint(p, d) ==
    CASE d = 0 -> p
      [] d = 90 -> <<p[2], -p[1]>>
      [] d = 180 -> <<-p[1], -p[2]>>
      [] d = -90 -> <<-p[2], p[1]>>
      [] OTHER -> <<Round1000(p[2] * Trig(d)[2] + p[1] * Trig(d)[1]),
                    Round1000(p[2] * Trig(d)[1] - p[1] * Trig(d)[2])>>

\* integer square root (floor): math.sqrt on the sums of squares of pitches
RECURSIVE SqrtFrom(_, _)
SqrtFrom(n, r) == IF (r + 1) * (r + 1) > n THEN r ELSE SqrtFrom(n, r + 1)

Sqrt(n) == SqrtFrom(n, 0)

\* a point of the board in half units
HalfUnits(p) == <<2 * p[1], 2 * p[2]>>

\* ------------------------------------------------------------------- state
VARIABLES
    fp_pos,       \* host: the footprint's position <<x, y>>
    fp_pads,      \* host: the footprint's pads, [pos0, net]
    orientation,  \* host: the footprint's orientation, degrees
    board,        \* host: the items on the board
    nextId,       \* host: identity of the next item created
    pc,           \* "new" before BGA(...) is constructed, "ready" after
    alignment, direction, degrees, x0, y0, radian_pad,
    real_pads,    \* self.real_pads: indices into fp_pads
    pitchx, pitchy,
    tracks,       \* self.tracks: the ids of the items recorded
    calls,        \* fanout() calls made
    status,       \* how the last call ended
    added,        \* history: <<tracks, vias>> added by each fanout() since
                  \* the record list was last empty
    at_fanout,    \* history: the board, self.tracks and the footprint when
                  \* fanout() was last called
    selected      \* the sector of the last look-up in the selection table of
                  \* quadrant_other_angle and the candidate it chose

vars == <<fp_pos, fp_pads, orientation, board, nextId, pc, alignment,
          direction, degrees, x0, y0, radian_pad, real_pads, pitchx, pitchy,
          tracks, calls, status, added, at_fanout, selected>>

host == <<fp_pos, fp_pads>>

config == <<alignment, direction, degrees, x0, y0, radian_pad, real_pads,
            pitchx, pitchy>>

\* pad.GetPosition() of pad i with the footprint at orientation d
PadPositionAt(i, d) ==
    LET r == RotatePoint(fp_pads[i].pos0, d)
    IN <<fp_pos[1] + r[1], fp_pos[2] + r[2]>>

\* pad.GetPosition() now
GetPosition(i) == PadPositionAt(i, orientation)

GetNetCode(i) == fp_pads[i].net

\* ---------------------------------------------------------- pitch analysis
\* pos in arr
Contains(arr, pos) == \E j \in 1..Len(arr) : arr[j] = pos

\* the inner loop over the groups for one pad position: the first group whose
\* first member shares coordinate c with pos and does not hold pos takes it,
\* else pos opens a new group
RECURSIVE PlaceFrom(_, _, _, _)
PlaceFrom(groups, pos, c, k) ==
    IF k > Len(groups) THEN Append(groups, <<pos>>)
    ELSE IF groups[k][1][c] = pos[c] /\ ~Contains(groups[k], pos)
         THEN [groups EXCEPT ![k] = Append(@, pos)]
         ELSE PlaceFrom(groups, pos, c, k + 1)

\* the loop over all real pads, from pad i, grouping on coordinate c
RECURSIVE GroupFrom(_, _, _, _)
GroupFrom(groups, ps, c, i) ==
    IF i > Len(ps) THEN groups
    ELSE GroupFrom(PlaceFrom(groups, ps[i], c, 1), ps, c, i + 1)

\* the groups before sorting: seeded with the first pad's position, then
\* every pad (the first one again) is placed
Group(ps, c) == GroupFrom(<< <<ps[1]>> >>, ps, c, 1)

\* list.sort(key=coordinate c): a stable insertion sort
RECURSIVE InsertSorted(_, _, _)
InsertSorted(arr, pos, c) ==
    IF arr = <<>> THEN <<pos>>
    ELSE IF arr[Len(arr)][c] <= pos[c] THEN Append(arr, pos)
         ELSE Append(InsertSorted(SubSeq(arr, 1, Len(arr) - 1), pos, c),
                     arr[Len(arr)])

RECURSIVE SortFrom(_, _, _, _)
SortFrom(sorted, arr, c, i) ==
    IF i > Len(arr) THEN sorted
    ELSE SortFrom(InsertSorted(sorted, arr[i], c), arr, c, i + 1)

Sort(arr, c) == SortFrom(<<>>, arr, c, 1)

\* pos_x: the rows (pads sharing Y), each sorted by X
pos_x(ps) == LET g == Group(ps, 2) IN [k \in 1..Len(g) |-> Sort(g[k], 1)]

\* pos_y: the columns (pads sharing X), each sorted by Y
pos_y(ps) == LET g == Group(ps, 1) IN [k \in 1..Len(g) |-> Sort(g[k], 2)]

\* mutant: the pitch stays the first gap of the first group
PitchInRow_seed(pitch, row, c, i) == pitch

\* the loop over one row (column) from member i: a positive gap below the
\* pitch so far replaces it
RECURSIVE PitchInRow(_, _, _, _)
PitchInRow(pitch, row, c, i) ==
    IF i > Len(row) THEN pitch
    ELSE LET pitch_candidate == row[i][c] - row[i - 1][c]
         IN PitchInRow(IF 0 < pitch_candidate /\ pitch_candidate < pitch
                       THEN pitch_candidate ELSE pitch,
                       row, c, i + 1)

\* the loop over all rows (columns) from group k
RECURSIVE PitchInGroups(_, _, _, _)
PitchInGroups(pitch, groups, c, k) ==
    IF k > Len(groups) THEN pitch
    ELSE PitchInGroups(PitchInRow(pitch, groups[k], c, 2), groups, c, k + 1)

\* the pitch along coordinate c: seeded with the first gap of the first group
Pitch(groups, c) ==
    PitchInGroups(groups[1][2][c] - groups[1][1][c], groups, c, 1)

\* mutant: the pads without a net are kept
RealFrom_all(pads, i) == [k \in 1..(Len(pads) + 1 - i) |-> i + k - 1]

\* the real pads: the pads with a net, in the footprint's order
RECURSIVE RealFrom(_, _)
RealFrom(pads, i) ==
    IF i > Len(pads) THEN <<>>
    ELSE IF pads[i].net = 0 THEN RealFrom(pads, i + 1)
         ELSE <<i>> \o RealFrom(pads, i + 1)

RealPads(pads) == RealFrom(pads, 1)

\* the orientation at which init_data reads the pad positions
MeasureOrientation(deg) == IF deg \in AxisAligned THEN deg ELSE 0

\* the footprint's orientation when init_data returns after its grouping
\* found the first row or the first column with fewer than 2 pads
OrientationOnDegenerate(deg) == MeasureOrientation(deg)

\* init_data for a footprint at orientation deg: what it leaves in
\* self.real_pads, self.radian_pad, self.pitchx, self.pitchy and in the
\* footprint's orientation
init_data(deg) ==
    LET real == RealPads(fp_pads)
        ps == [i \in 1..Len(real) |-> PadPositionAt(real[i], MeasureOrientation(deg))]
        rp == IF deg \in AxisAligned THEN 0 ELSE Normalize180(deg + 45)
    IN IF Len(real) < 2
       THEN [real_pads |-> real, radian_pad |-> 0, pitchx |-> 0, pitchy |-> 0,
             orientation |-> deg]
       ELSE IF Len(pos_x(ps)[1]) < 2 \/ Len(pos_y(ps)[1]) < 2
       THEN [real_pads |-> real, radian_pad |-> rp, pitchx |-> 0, pitchy |-> 0,
             orientation |-> OrientationOnDegenerate(deg)]
       ELSE [real_pads |-> real, radian_pad |-> rp,
             pitchx |-> Pitch(pos_x(ps), 1), pitchy |-> Pitch(pos_y(ps), 2),
             orientation |-> deg]

\* BGA(board, reference, track, via, alignment, direction, logger)
BGA_init(a, d) ==
    /\ pc = "new"
    /\ \E r \in {init_data(orientation)} :
          /\ real_pads' = r.real_pads
          /\ radian_pad' = r.radian_pad
          /\ pitchx' = r.pitchx
          /\ pitchy' = r.pitchy
          /\ orientation' = r.orientation
    /\ alignment' = a
    /\ direction' = d
    /\ degrees' = orientation
    /\ x0' = fp_pos[1]
    /\ y0' = fp_pos[2]
    /\ tracks' = <<>>
    /\ pc' = "ready"
    /\ status' = "constructed"
    /\ UNCHANGED <<host, board, nextId, calls, added, at_fanout, selected>>

\* ------------------------------------------------------- fanout strategies
\* Each strategy is given by the end point, in half units, that its loop
\* body computes for a pad at pos.

\* twice the "pitch" of the 45-degree and other-angle methods:
\* math.sqrt(pitchx * pitchx + pitchy * pitchy) / 2
Hypot == Sqrt(pitchx * pitchx + pitchy * pitchy)

\* mutant: the comparisons with the origin are not strict
quadrant_0_90_180_ties(pos) ==
    <<2 * pos[1] + (IF pos[1] >= x0 THEN pitchx ELSE -pitchx),
      2 * pos[2] + (IF pos[2] >= y0 THEN pitchy ELSE -pitchy)>>

quadrant_0_90_180(pos) ==
    IF pos[2] > y0
    THEN IF pos[1] > x0
         THEN <<2 * pos[1] + pitchx, 2 * pos[2] + pitchy>>
         ELSE <<2 * pos[1] - pitchx, 2 * pos[2] + pitchy>>
    ELSE IF pos[1] > x0
         THEN <<2 * pos[1] + pitchx, 2 * pos[2] - pitchy>>
         ELSE <<2 * pos[1] - pitchx, 2 * pos[2] - pitchy>>

quadrant_45_135(pos) ==
    LET bx == y0 + x0
        by == y0 - x0
        y1 == bx - pos[1]
        y2 == by + pos[1]
    IN IF pos[2] > y1
       THEN IF pos[2] > y2
            THEN <<2 * pos[1], 2 * pos[2] + Hypot>>
            ELSE <<2 * pos[1] + Hypot, 2 * pos[2]>>
       ELSE IF pos[2] > y2
            THEN <<2 * pos[1] - Hypot, 2 * pos[2]>>
            ELSE <<2 * pos[1], 2 * pos[2] - Hypot>>

Abs(n) == IF n < 0 THEN -n ELSE n

Sgn(n) == IF n < 0 THEN -1 ELSE 1

\* pos.y > y1, y1 the line through the origin of slope -tan(radian):
\* (pos.y - y0) > -tan(radian) * (pos.x - x0), both sides times cos(radian)
AboveY1(pos) ==
    LET t == Trig(degrees)
        v == (pos[2] - y0) * t[1] + (pos[1] - x0) * t[2]
    IN IF t[1] > 0 THEN v > 0 ELSE v < 0

\* pos.y > y2, y2 the line through the origin of slope 1 / tan(radian):
\* (pos.y - y0) > (pos.x - x0) / tan(radian), both sides times sin(radian)
AboveY2(pos) ==
    LET t == Trig(degrees)
        v == (pos[2] - y0) * t[2] - (pos[1] - x0) * t[1]
    IN IF t[2] > 0 THEN v > 0 ELSE v < 0

\* mutant: the tests of the selection table for rotations in (135, 180) and
\* (-45, 0) are missing
SelectRoot_short(deg, gt1, gt2) ==
    IF (135 < deg /\ deg < 180) \/ (-45 < deg /\ deg < 0) THEN 0
    ELSE IF (0 < deg /\ deg < 180) \/ (-180 < deg /\ deg < 0) THEN 1
    ELSE 0

\* the candidate (1..4 for x1..x4) the chain of degree tests picks; 0 when no
\* test of the chain holds and x is left unassigned
SelectRoot(deg, gt1, gt2) ==
    LET degrees_0to45 == 0 < deg /\ deg < 45
        degrees_45to90 == 45 < deg /\ deg < 90
        degrees_90to135 == 90 < deg /\ deg < 135
        degrees_135to180 == 135 < deg /\ deg < 180
        degrees_0to90 == 0 < deg /\ deg < 90
        degrees_90to180 == 90 < deg /\ deg < 180
        degrees_n45to0 == -45 < deg /\ deg < 0
        degrees_n90to45 == -90 < deg /\ deg < -45
        degrees_n135to90 == -135 < deg /\ deg < -90
        degrees_n180to135 == -180 < deg /\ deg < -135
        degrees_n180to90 == -180 < deg /\ deg < -90
        degrees_n90to0 == -90 < deg /\ deg < 0
    IN IF gt1
       THEN IF gt2
            THEN CASE degrees_0to45 \/ degrees_n180to135 -> 2
                   [] degrees_45to90 \/ degrees_n135to90 -> 1
                   [] degrees_90to135 \/ degrees_n90to45 -> 4
                   [] degrees_135to180 \/ degrees_n45to0 -> 3
                   [] OTHER -> 0
            ELSE CASE degrees_0to90 \/ degrees_n180to90 -> 3
                   [] degrees_90to180 \/ degrees_n90to0 -> 2
                   [] OTHER -> 0
       ELSE IF gt2
            THEN CASE degrees_0to90 \/ degrees_n180to90 -> 4
                   [] degrees_90to180 \/ degrees_n90to0 -> 1
                   [] OTHER -> 0
            ELSE CASE degrees_0to45 \/ degrees_n180to135 -> 1
                   [] degrees_45to90 \/ degrees_n135to90 -> 2
                   [] degrees_90to135 \/ degrees_n90to45 -> 3
                   [] degrees_135to180 \/ degrees_n45to0 -> 4
                   [] OTHER -> 0

\* the point of candidate k: x1, x2 on the line through the pad of slope
\* -tan(radian_pad), x3, x4 on the line of slope 1 / tan(radian_pad), each at
\* distance "pitch" from the pad, x1 and x3 the roots with the larger x
Candidate(pos, k) ==
    LET t == Trig(radian_pad)
        dx == Round1000(Hypot * Abs(t[1]))
        dy == Round1000(Hypot * Abs(t[2]))
    IN CASE k = 1 -> <<2 * pos[1] + dx, 2 * pos[2] - Sgn(t[1]) * Sgn(t[2]) * dy>>
         [] k = 2 -> <<2 * pos[1] - dx, 2 * pos[2] + Sgn(t[1]) * Sgn(t[2]) * dy>>
         [] k = 3 -> <<2 * pos[1] + dy, 2 * pos[2] + Sgn(t[1]) * Sgn(t[2]) * dx>>
         [] k = 4 -> <<2 * pos[1] - dy, 2 * pos[2] - Sgn(t[1]) * Sgn(t[2]) * dx>>

quadrant_other_angle(pos) ==
    Candidate(pos, SelectRoot(degrees, AboveY1(pos), AboveY2(pos)))

\* the selection table assigns no x for the first pad: "end = wxPoint(x, y)"
\* reads an unbound local
Unbound ==
    LET pos == GetPosition(real_pads[1])
    IN SelectRoot(degrees, AboveY1(pos), AboveY2(pos)) = 0

\* one look-up in the selection table, for a pad in the sector given by
\* gt1 (pos.y > y1) and gt2 (pos.y > y2)
select_root(gt1, gt2) ==
    /\ pc = "ready"
    /\ Len(real_pads) >= 2
    /\ alignment = "Quadrant"
    /\ degrees \notin AxisAligned
    /\ degrees \notin Diagonal45
    /\ selected' = [sector |-> <<gt1, gt2>>, root |-> SelectRoot(degrees, gt1, gt2)]
    /\ pc' = "selected"
    /\ UNCHANGED <<host, orientation, board, nextId, config, tracks, calls,
                   status, added, at_fanout>>

\* mutant: the pitches of the two axes are exchanged
diagonal_0_90_180_swapped(pos) ==
    IF direction = "TopLeft"
    THEN <<2 * pos[1] - pitchy, 2 * pos[2] - pitchx>>
    ELSE IF direction = "TopRight"
    THEN <<2 * pos[1] + pitchy, 2 * pos[2] - pitchx>>
    ELSE IF direction = "BottomLeft"
    THEN <<2 * pos[1] - pitchy, 2 * pos[2] + pitchx>>
    ELSE <<2 * pos[1] + pitchy, 2 * pos[2] + pitchx>>

diagonal_0_90_180(pos) ==
    IF direction = "TopLeft"
    THEN <<2 * pos[1] - pitchx, 2 * pos[2] - pitchy>>
    ELSE IF direction = "TopRight"
    THEN <<2 * pos[1] + pitchx, 2 * pos[2] - pitchy>>
    ELSE IF direction = "BottomLeft"
    THEN <<2 * pos[1] - pitchx, 2 * pos[2] + pitchy>>
    ELSE <<2 * pos[1] + pitchx, 2 * pos[2] + pitchy>>

diagonal_45_135(pos) ==
    IF direction = "TopLeft"
    THEN <<2 * pos[1] - Hypot, 2 * pos[2]>>
    ELSE IF direction = "TopRight"
    THEN <<2 * pos[1] + Hypot, 2 * pos[2]>>
    ELSE IF direction = "BottomLeft"
    THEN <<2 * pos[1], 2 * pos[2] + Hypot>>
    ELSE <<2 * pos[1], 2 * pos[2] - Hypot>>

\* the end point for direction dir
xpattern_0_90_180_dir(pos, dir) ==
    LET bx == y0 + x0
        by == y0 - x0
        y1 == bx - pos[1]
        y2 == by + pos[1]
    IN IF pos[2] > y1
       THEN IF pos[2] > y2
            THEN IF dir = "Counterclock"
                 THEN <<2 * pos[1] - pitchx, 2 * pos[2] + pitchy>>
                 ELSE <<2 * pos[1] + pitchx, 2 * pos[2] + pitchy>>
            ELSE IF dir = "Counterclock"
                 THEN <<2 * pos[1] + pitchx, 2 * pos[2] + pitchy>>
                 ELSE <<2 * pos[1] + pitchx, 2 * pos[2] - pitchy>>
       ELSE IF pos[2] > y2
            THEN IF dir = "Counterclock"
                 THEN <<2 * pos[1] - pitchx, 2 * pos[2] - pitchy>>
                 ELSE <<2 * pos[1] - pitchx, 2 * pos[2] + pitchy>>
            ELSE IF dir = "Counterclock"
                 THEN <<2 * pos[1] + pitchx, 2 * pos[2] - pitchy>>
                 ELSE <<2 * pos[1] - pitchx, 2 * pos[2] - pitchy>>

xpattern_0_90_180(pos) == xpattern_0_90_180_dir(pos, direction)

\* the end point for direction dir
xpattern_45_135_dir(pos, dir) ==
    IF pos[2] > y0
    THEN IF pos[1] > x0
         THEN IF dir = "Counterclock"
              THEN <<2 * pos[1], 2 * pos[2] + Hypot>>
              ELSE <<2 * pos[1] + Hypot, 2 * pos[2]>>
         ELSE IF dir = "Counterclock"
              THEN <<2 * pos[1] - Hypot, 2 * pos[2]>>
              ELSE <<2 * pos[1], 2 * pos[2] + Hypot>>
    ELSE IF pos[1] > x0
         THEN IF dir = "Counterclock"
              THEN <<2 * pos[1] + Hypot, 2 * pos[2]>>
              ELSE <<2 * pos[1], 2 * pos[2] - Hypot>>
         ELSE IF dir = "Counterclock"
              THEN <<2 * pos[1], 2 * pos[2] - Hypot>>
              ELSE <<2 * pos[1] - Hypot, 2 * pos[2]>>

xpattern_45_135(pos) == xpattern_45_135_dir(pos, direction)

\* the method fanout() dispatches to
Method ==
    LET suffix == IF degrees \in AxisAligned THEN "0_90_180"
                  ELSE IF degrees \in Diagonal45 THEN "45_135"
                  ELSE "other_angle"
    IN IF alignment = "Quadrant" THEN <<"quadrant", suffix>>
       ELSE IF alignment = "Diagonal" THEN <<"diagonal", suffix>>
       ELSE <<"xpattern", suffix>>

\* the methods the class defines with a loop over the real pads;
\* xpattern_other_angle is "pass", diagonal_other_angle is not defined
Routing ==
    {<<"quadrant", "0_90_180">>, <<"quadrant", "45_135">>,
     <<"quadrant", "other_angle">>, <<"diagonal", "0_90_180">>,
     <<"diagonal", "45_135">>, <<"xpattern", "0_90_180">>,
     <<"xpattern", "45_135">>}

Undefined == {<<"diagonal", "other_angle">>}

\* the end point the dispatched method computes for a pad at pos
EndPoint(pos) ==
    CASE Method = <<"quadrant", "0_90_180">> -> quadrant_0_90_180(pos)
      [] Method = <<"quadrant", "45_135">> -> quadrant_45_135(pos)
      [] Method = <<"quadrant", "other_angle">> -> quadrant_other_angle(pos)
      [] Method = <<"diagonal", "0_90_180">> -> diagonal_0_90_180(pos)
      [] Method = <<"diagonal", "45_135">> -> diagonal_45_135(pos)
      [] Method = <<"xpattern", "0_90_180">> -> xpattern_0_90_180(pos)
      [] Method = <<"xpattern", "45_135">> -> xpattern_45_135(pos)

\* --------------------------------------------------------- routing emitter
\* st = [board, tracks, next]: the board's items, self.tracks, the next id

\* mutant: the zero-length test is missing
add_track_always(st, net, start, end) ==
    [board |-> st.board \cup {[id |-> st.next, type |-> "track", net |-> net,
                               start |-> start, end |-> end]},
     tracks |-> Append(st.tracks, st.next),
     next |-> st.next + 1]

add_track(st, net, start, end) ==
    IF start = end THEN st
    ELSE [board |-> st.board \cup {[id |-> st.next, type |-> "track",
                                    net |-> net, start |-> start, end |-> end]},
          tracks |-> Append(st.tracks, st.next),
          next |-> st.next + 1]

\* mutant: a via is not added where the board already holds one
add_via_once(st, net, pos) ==
    IF \E it \in st.board : it.type = "via" /\ it.pos = pos /\ it.net = net
    THEN st
    ELSE [board |-> st.board \cup {[id |-> st.next, type |-> "via", net |-> net,
                                    pos |-> pos]},
          tracks |-> Append(st.tracks, st.next),
          next |-> st.next + 1]

add_via(st, net, pos) ==
    [board |-> st.board \cup {[id |-> st.next, type |-> "via", net |-> net,
                               pos |-> pos]},
     tracks |-> Append(st.tracks, st.next),
     next |-> st.next + 1]

\* the loop "for pad in self.real_pads" of a routing method, from pad i
RECURSIVE RouteFrom(_, _)
RouteFrom(st, i) ==
    IF i > Len(real_pads) THEN st
    ELSE LET pos == GetPosition(real_pads[i])
             net == GetNetCode(real_pads[i])
             end == EndPoint(pos)
         IN RouteFrom(add_via(add_track(st, net, HalfUnits(pos), end), net, end),
                      i + 1)

\* the items of self.tracks
Recorded(type) ==
    {it \in board : it.type = type /\ \E k \in 1..Len(tracks) : tracks[k] = it.id}

\* the board, self.tracks and the footprint now
Snapshot ==
    [board |-> board, tracks |-> tracks, pads |-> fp_pads, pos |-> fp_pos,
     orientation |-> orientation]

\* what one fanout() call does to the board and to self.tracks
fanout_body ==
    IF Len(real_pads) < 2
    THEN [board |-> board, tracks |-> tracks, next |-> nextId, status |-> "skipped"]
    ELSE IF Method \in Undefined
    THEN [board |-> board, tracks |-> tracks, next |-> nextId, status |-> "error"]
    ELSE IF Method = <<"quadrant", "other_angle">> /\ Unbound
    THEN [board |-> board, tracks |-> tracks, next |-> nextId, status |-> "error"]
    ELSE IF Method \in Routing
    THEN LET st == RouteFrom([board |-> board, tracks |-> tracks, next |-> nextId], 1)
         IN [board |-> st.board, tracks |-> st.tracks, next |-> st.next,
             status |-> "complete"]
    ELSE [board |-> board, tracks |-> tracks, next |-> nextId, status |-> "complete"]

fanout ==
    /\ pc = "ready"
    /\ calls < MaxFanouts
    /\ \E r \in {fanout_body} :
       LET new == {it \in r.board : it.id >= nextId}
       IN /\ board' = r.board
          /\ tracks' = r.tracks
          /\ nextId' = r.next
          /\ status' = r.status
          /\ added' = Append(added, <<Cardinality({it \in new : it.type = "track"}),
                                      Cardinality({it \in new : it.type = "via"})>>)
    /\ calls' = calls + 1
    /\ at_fanout' = Snapshot
    /\ UNCHANGED <<host, orientation, pc, config, selected>>

\* mutant: removes every item of a net that a recorded item has
remove_items_by_net(b, ids) ==
    {it \in b : ~\E jt \in b :
        /\ \E k \in 1..Len(ids) : ids[k] = jt.id
        /\ jt.net = it.net}

\* mutant: removes only the items recorded since fanout() was last called
remove_items_last_call(b, ids) ==
    {it \in b : ~\E k \in (Len(at_fanout.tracks) + 1)..Len(ids) : ids[k] = it.id}

\* removes from the board the items self.tracks holds
remove_items(b, ids) ==
    {it \in b : ~\E k \in 1..Len(ids) : ids[k] = it.id}

remove_track_via ==
    /\ pc = "ready"
    /\ board' = remove_items(board, tracks)
    /\ tracks' = <<>>
    /\ added' = <<>>
    /\ status' = "removed"
    /\ UNCHANGED <<host, orientation, nextId, pc, config, calls, at_fanout,
                   selected>>

\* ---------------------------------------------------------- specifications
\* an item of the board that the fanout tool did not create
Preexisting == {[id |-> 0, type |-> "via", net |-> 1, pos |-> <<0, 0>>]}

\* the state before BGA(...) is constructed, for a footprint
NewAt(pos, pads, deg) ==
    /\ fp_pos = pos
    /\ fp_pads = pads
    /\ orientation = deg
    /\ board = Preexisting
    /\ nextId = 1
    /\ pc = "new"
    /\ alignment = "none"
    /\ direction = "none"
    /\ degrees = 0
    /\ x0 = 0
    /\ y0 = 0
    /\ radian_pad = 0
    /\ real_pads = <<>>
    /\ pitchx = 0
    /\ pitchy = 0
    /\ tracks = <<>>
    /\ calls = 0
    /\ status = "none"
    /\ added = <<>>
    /\ at_fanout = [board |-> Preexisting, tracks |-> <<>>, pads |-> pads,
                    pos |-> pos, orientation |-> deg]
    /\ selected = [sector |-> <<FALSE, FALSE>>, root |-> 0]

\* pad lists of n pads on three cells of a unit grid; pad i is mechanical
\* (net 0) or carries net i
Cells == {<<0, 0>>, <<1, 0>>, <<0, 1>>}

PadLists(n) ==
    {[i \in 1..n |-> [pos0 |-> p[i], net |-> IF i \in e THEN i ELSE 0]] :
        p \in [1..n -> Cells], e \in SUBSET (1..n)}

\* Lifecycle: any short pad list, at any orientation
Init ==
    \E n \in 0..MaxPads : \E pads \in PadLists(n) : \E deg \in Rotations :
        NewAt(<<0, 0>>, pads, deg)

Next ==
    \/ \E a \in Alignments : \E d \in DirectionsOf(a) : BGA_init(a, d)
    \/ fanout
    \/ remove_track_via

Spec == Init /\ [][Next]_vars

\* Grid: the pads are the cells Xs x Ys of a rectilinear grid whose first
\* row and column pass through the footprint's anchor, all with a net,
\* enumerated in any order
GridRotations == {0, 90, 45, 20}

\* every order in which the pads at the cells S can be enumerated
RECURSIVE Orders(_)
Orders(S) ==
    IF S = {} THEN {<<>>}
    ELSE UNION {{<<c>> \o rest : rest \in Orders(S \ {c})} : c \in S}

InitGrid ==
    \E Xs \in SUBSET (0..MaxCoord) : \E Ys \in SUBSET (0..MaxCoord) :
        /\ 0 \in Xs /\ 0 \in Ys
        /\ Cardinality(Xs) * Cardinality(Ys) <= MaxGridPads
        /\ \E order \in Orders(Xs \X Ys) : \E deg \in GridRotations :
              NewAt(<<0, 0>>,
                    [i \in DOMAIN order |-> [pos0 |-> order[i], net |-> i]],
                    deg)

NextGrid == BGA_init("Quadrant", "TopLeft")

SpecGrid == InitGrid /\ [][NextGrid]_vars

\* Geometry: a 2 x 2 grid of pads with a net, of any spacing up to
\* MaxSpacing, placed anywhere around the footprint's anchor, with or without
\* a mechanical pin
Origins == {<<0, 0>>, <<2, -1>>}

Footprint(sx, sy, ox, oy) ==
    [i \in 1..4 |-> [pos0 |-> <<((i - 1) % 2) * sx - ox, ((i - 1) \div 2) * sy - oy>>,
                     net |-> i]]

\* Table: the footprint at any rotation of a whole number of degrees in
\* [-180, 180]; the look-ups of quadrant_other_angle in its selection table
TableRotations == -180..180

InitTable ==
    \E deg \in TableRotations : NewAt(<<0, 0>>, Footprint(1, 1, 0, 0), deg)

NextTable ==
    \/ BGA_init("Quadrant", "TopLeft")
    \/ \E gt1, gt2 \in BOOLEAN : select_root(gt1, gt2)

SpecTable == InitTable /\ [][NextTable]_vars

\* a mechanical pin (no net) on the footprint's anchor
Mechanical == [pos0 |-> <<0, 0>>, net |-> 0]

InitGeom ==
    \E sx, sy \in 1..MaxSpacing : \E ox \in 0..sx : \E oy \in 0..sy :
        \E pos \in Origins : \E deg \in Rotations :
            \E pins \in {<<>>, <<Mechanical>>} :
                NewAt(pos, Footprint(sx, sy, ox, oy) \o pins, deg)

SpecGeom == InitGeom /\ [][Next]_vars

\* ------------------------------------------------------------------ claims
\* the ids self.tracks held when fanout() was last called
RecordedAtFanout == {at_fanout.tracks[k] : k \in 1..Len(at_fanout.tracks)}

\* the last call was a fanout()
AfterFanout == status \in {"skipped", "error", "complete"}

\* C1: whenever pitch analysis at construction did not compute a pitch
\* (pitch stays (0,0)), every later fanout() call adds no track and no via
\* to the board and leaves the recorded set empty.
C1_NoPitchNoRouting ==
    (pc = "ready" /\ pitchx = 0 /\ pitchy = 0) =>
        (board = Preexisting /\ tracks = <<>>)

\* C2: after construction and after any later sequence of fanout() and
\* remove_track_via() calls, the footprint's rotation equals its rotation
\* before construction, on every exit path of the analysis.
C2_RotationRestored == pc = "ready" => orientation = degrees

C5_TwoCallsDouble ==
    Len(added) = 2 =>
        /\ Cardinality(Recorded("track")) = 2 * added[1][1]
        /\ Cardinality(Recorded("via")) = 2 * added[1][2]

\* two calls, each of which added tracks and vias
C5_Witness ==
    /\ Len(added) = 2
    /\ added[1][1] > 0
    /\ Cardinality(Recorded("track")) = 2 * added[1][1]
    /\ Cardinality(Recorded("via")) = 2 * added[1][2]

\* the real pads whose end point differs from the pad's position
MovedPads ==
    {i \in 1..Len(real_pads) :
        EndPoint(GetPosition(real_pads[i])) # HalfUnits(GetPosition(real_pads[i]))}

\* C6: no track is ever added to the board with start equal to end, and in
\* every fanout() call the number of tracks added equals the number of
\* electrical pads whose computed end point differs from the pad position.
C6_NoZeroLengthTrack ==
    /\ \A it \in board : it.type = "track" => it.start # it.end
    /\ AfterFanout =>
          added[Len(added)][1] =
              IF status = "complete" /\ Method \in Routing
              THEN Cardinality(MovedPads) ELSE 0

\* a fanout() call whose pads all had a zero offset: vias and no track
C6_Witness ==
    /\ status = "complete"
    /\ Method \in Routing
    /\ MovedPads = {}
    /\ added[Len(added)][1] = 0
    /\ added[Len(added)][2] >= 2

\* the position init_data read for real pad i
Measured(i) == PadPositionAt(real_pads[i], MeasureOrientation(degrees))

\* the X of the pads sharing the first real pad's Y, the Y of those sharing
\* its X, and the X and Y of all real pads
FirstRowXs ==
    {Measured(i)[1] : i \in {j \in 1..Len(real_pads) : Measured(j)[2] = Measured(1)[2]}}

FirstColumnYs ==
    {Measured(i)[2] : i \in {j \in 1..Len(real_pads) : Measured(j)[1] = Measured(1)[1]}}

AllXs == {Measured(i)[1] : i \in 1..Len(real_pads)}

AllYs == {Measured(i)[2] : i \in 1..Len(real_pads)}

\* g is the least positive gap between two coordinates of S
IsMinGap(g, S) ==
    /\ \E a, b \in S : a - b = g /\ g > 0
    /\ \A a, b \in S : a - b > 0 => g <= a - b

\* C7 as stated: for every set of at least 2 electrical pads on a rectilinear
\* grid, in every enumeration order, pitchx is the minimum positive gap
\* between the X coordinates of the first row-group and pitchy the minimum
\* positive gap between the Y coordinates of the first column-group.
C7_PitchOfAnyGrid ==
    (pc = "ready" /\ Len(real_pads) >= 2) =>
        (IsMinGap(pitchx, FirstRowXs) /\ IsMinGap(pitchy, FirstColumnYs))

\* C7 amended: for every set of electrical pads on a rectilinear grid of at
\* least 2 rows and at least 2 columns, in every enumeration order, pitchx is
\* the minimum positive gap between the X coordinates of the first row-group
\* and pitchy that between the Y coordinates of the first column-group; both
\* are the least gaps of the whole grid, so no permutation changes them.
C7_PitchOfGrid ==
    (pc = "ready" /\ Cardinality(AllXs) >= 2 /\ Cardinality(AllYs) >= 2) =>
        /\ IsMinGap(pitchx, FirstRowXs)
        /\ IsMinGap(pitchy, FirstColumnYs)
        /\ IsMinGap(pitchx, AllXs)
        /\ IsMinGap(pitchy, AllYs)

\* a 3 x 2 grid whose first row gap (2) is not the least (1), read from a
\* pad that is not the grid's corner
C7_Witness ==
    /\ pc = "ready"
    /\ Len(real_pads) = 6
    /\ FirstRowXs = {0, 2, 3}
    /\ Measured(1)[1] = 2
    /\ pitchx = 1
    /\ pitchy = 2

\* the vias and tracks self.tracks holds, and those of real pad i when one
\* fanout() call made them: items are created in the order of the real pads
ViaOfPad(i) ==
    CHOOSE v \in Recorded("via") :
        Cardinality({w \in Recorded("via") : w.id < v.id}) = i - 1

TrackOfPad(i) ==
    CHOOSE v \in Recorded("track") :
        Cardinality({w \in Recorded("track") : w.id < v.id}) = i - 1

\* one completed fanout() call by method m on a footprint with a pitch
Routed(m) ==
    /\ status = "complete"
    /\ Len(added) = 1
    /\ Method = m
    /\ pitchx > 0
    /\ pitchy > 0

\* the position of real pad i
PadPos(i) == GetPosition(real_pads[i])

\* every real pad i has a track from its position to ends[i] and a via at
\* ends[i]
RoutedTo(ends) ==
    /\ Cardinality(Recorded("via")) = Len(real_pads)
    /\ Cardinality(Recorded("track")) = Len(real_pads)
    /\ \A i \in 1..Len(real_pads) :
          /\ ViaOfPad(i).pos = ends[i]
          /\ ViaOfPad(i).net = GetNetCode(real_pads[i])
          /\ TrackOfPad(i).start = HalfUnits(PadPos(i))
          /\ TrackOfPad(i).end = ends[i]

\* the end point of C8 as stated, in half units: a pad level with the origin
\* goes to the bottom, a pad in line with it to the right
QuadrantEndTiesBottomRight(pos) ==
    <<2 * pos[1] + (IF pos[1] >= x0 THEN 1 ELSE -1) * pitchx,
      2 * pos[2] + (IF pos[2] >= y0 THEN 1 ELSE -1) * pitchy>>

\* the end point of C8 as amended: such a pad goes to the top, to the left
QuadrantEndTiesTopLeft(pos) ==
    <<2 * pos[1] + (IF pos[1] > x0 THEN 1 ELSE -1) * pitchx,
      2 * pos[2] + (IF pos[2] > y0 THEN 1 ELSE -1) * pitchy>>

\* C8 as stated: Quadrant alignment with axis-aligned rotation: the end point
\* of every electrical pad is (pad.x + sx*pitchx/2, pad.y + sy*pitchy/2),
\* sx = +1 right of the origin, sy = +1 below it, and a pad with pad.y equal
\* to origin.y takes sy = +1, a pad with pad.x equal to origin.x sx = +1.
C8_QuadrantTiesBottomRight ==
    Routed(<<"quadrant", "0_90_180">>) =>
        RoutedTo([i \in 1..Len(real_pads) |-> QuadrantEndTiesBottomRight(PadPos(i))])

\* C8 amended: the same end point, but a pad with pad.y equal to origin.y
\* takes the top branch (sy = -1) and a pad with pad.x equal to origin.x the
\* left branch (sx = -1).
C8_QuadrantEndPoint ==
    Routed(<<"quadrant", "0_90_180">>) =>
        RoutedTo([i \in 1..Len(real_pads) |-> QuadrantEndTiesTopLeft(PadPos(i))])

\* a footprint routed with a pad on the origin, which goes to the top left,
\* and a pad below and right of the origin, which goes to the bottom right
C8_Witness ==
    /\ Routed(<<"quadrant", "0_90_180">>)
    /\ \E i \in 1..Len(real_pads) :
          /\ PadPos(i) = <<x0, y0>>
          /\ ViaOfPad(i).pos = <<2 * x0 - pitchx, 2 * y0 - pitchy>>
    /\ \E i \in 1..Len(real_pads) :
          /\ PadPos(i)[1] > x0
          /\ PadPos(i)[2] > y0
          /\ ViaOfPad(i).pos = <<2 * PadPos(i)[1] + pitchx,
                                 2 * PadPos(i)[2] + pitchy>>

\* the end point of C9, in half units
DiagonalEnd(pos) ==
    CASE direction = "TopLeft" -> <<2 * pos[1] - pitchx, 2 * pos[2] - pitchy>>
      [] direction = "TopRight" -> <<2 * pos[1] + pitchx, 2 * pos[2] - pitchy>>
      [] direction = "BottomLeft" -> <<2 * pos[1] - pitchx, 2 * pos[2] + pitchy>>
      [] direction = "BottomRight" -> <<2 * pos[1] + pitchx, 2 * pos[2] + pitchy>>

\* C9: Diagonal alignment with axis-aligned rotation: for a given direction
\* every electrical pad gets the same offset, wherever it lies: TopLeft
\* (x - pitchx/2, y - pitchy/2), TopRight (x + pitchx/2, y - pitchy/2),
\* BottomLeft (x - pitchx/2, y + pitchy/2), BottomRight (x + pitchx/2,
\* y + pitchy/2).
C9_DiagonalEndPoint ==
    Routed(<<"diagonal", "0_90_180">>) =>
        RoutedTo([i \in 1..Len(real_pads) |-> DiagonalEnd(PadPos(i))])

\* TopLeft with pitch (2,1) and pads on both sides of the origin: every pad
\* (x,y) goes to (x - 1, y - 1/2)
C9_Witness ==
    /\ Routed(<<"diagonal", "0_90_180">>)
    /\ direction = "TopLeft"
    /\ pitchx = 2
    /\ pitchy = 1
    /\ \E i, j \in 1..Len(real_pads) : PadPos(i)[1] < x0 /\ PadPos(j)[1] > x0
    /\ \A i \in 1..Len(real_pads) :
          ViaOfPad(i).pos = <<2 * PadPos(i)[1] - 2, 2 * PadPos(i)[2] - 1>>

\* the X-pattern end point of a pad for direction dir
XPatternEnd(pos, dir) ==
    IF degrees \in AxisAligned THEN xpattern_0_90_180_dir(pos, dir)
    ELSE xpattern_45_135_dir(pos, dir)

\* C10: X-pattern alignment, axis-aligned and 45-degree rotations: for every
\* electrical pad and positive pitch the end point computed with direction
\* Clockwise differs from the one computed with direction Counterclockwise.
C10_DirectionChangesEndPoint ==
    (/\ pc = "ready"
     /\ alignment = "X-pattern"
     /\ degrees \in AxisAligned \cup Diagonal45
     /\ pitchx > 0
     /\ pitchy > 0) =>
        \A i \in 1..Len(real_pads) :
            XPatternEnd(PadPos(i), "Clockwise") #
                XPatternEnd(PadPos(i), "Counterclockwise")

\* C11: for a footprint with at least 2 electrical pads and a rotation outside
\* the axis-aligned and the 45-degree sets, fanout() with Diagonal or
\* X-pattern alignment adds no track and no via and ends normally, reaching
\* its completion step rather than an error.
C11_OtherAngleStubsComplete ==
    (/\ AfterFanout
     /\ Len(real_pads) >= 2
     /\ degrees \notin AxisAligned \cup Diagonal45
     /\ alignment \in {"Diagonal", "X-pattern"}) =>
        (/\ status = "complete"
         /\ board = at_fanout.board
         /\ tracks = at_fanout.tracks)

\* the items the last fanout() call added to the board
AddedByCall == board \ at_fanout.board

\* the tracks or vias the last fanout() call created for net n
AddedFor(type, n) == {it \in AddedByCall : it.type = type /\ it.net = n}

\* C13: in every fanout() call each electrical pad yields at most one track
\* and at most one via, nothing is created for a pad with net code 0, every
\* track starts at the position of an electrical pad and carries that pad's
\* net code, and every via carries the net code of an electrical pad.
C13_OnePairPerElectricalPad ==
    AfterFanout =>
        /\ \A i \in 1..Len(fp_pads) :
              IF GetNetCode(i) = 0
              THEN AddedFor("track", 0) = {} /\ AddedFor("via", 0) = {}
              ELSE /\ Cardinality(AddedFor("track", GetNetCode(i))) <= 1
                   /\ Cardinality(AddedFor("via", GetNetCode(i))) <= 1
        /\ \A it \in AddedByCall :
              /\ it.net # 0
              /\ \E i \in 1..Len(fp_pads) :
                    /\ GetNetCode(i) = it.net
                    /\ it.type = "track" => it.start = HalfUnits(GetPosition(i))

\* a footprint of four electrical pads and a mechanical pin, fanned out: a
\* track and a via for each electrical pad, nothing for the pin
C13_Witness ==
    /\ status = "complete"
    /\ \E i \in 1..Len(fp_pads) : GetNetCode(i) = 0
    /\ Len(real_pads) = 4
    /\ \A k \in 1..Len(real_pads) :
          /\ Cardinality(AddedFor("track", GetNetCode(real_pads[k]))) = 1
          /\ Cardinality(AddedFor("via", GetNetCode(real_pads[k]))) = 1
    /\ Cardinality(AddedByCall) = 8

====
